---- MODULE Spec2Model ----
(***************************************************************************)
(* Saori Indodax bot: the ticker cache, get_ticker_data with its endpoint  *)
(* fallback, the price button, the summary of the top pairs, the /alert    *)
(* command and the periodic check_alerts job, as a state machine.          *)
(* Source: src/saori_indodax_bot.py.                                       *)
(*                                                                         *)
(* The bot runs on one asyncio event loop.  get_ticker_data is a plain     *)
(* (blocking) function, so a call to it is one atomic step of the loop.    *)
(* A coroutine gives up the loop only at an await; check_alerts awaits     *)
(* only app.bot.send_message.  The passes of the endpoint loop and the     *)
(* items of check_alerts are steps of their own, during which nothing else *)
(* runs but the clock.  A cache lookup reads the clock once.               *)
(***************************************************************************)
EXTENDS Integers, Sequences, FiniteSets, TLC

(***************************************************************************)
(* Python values.  A string is a sequence of one-character strings, so     *)
(* that float() can be computed on it.  A dict is a record keyed by its    *)
(* keys.                                                                   *)
(***************************************************************************)
None == [t |-> "none"]
Num(n) == [t |-> "num", n |-> n]
Str(s) == [t |-> "str", s |-> s]
Dict(d) == [t |-> "dict", d |-> d]
EmptyDict == Dict([k \in {} |-> None])

\* bool(v): the truth value Python gives v in `and` / `if`
Truthy(v) ==
    CASE v.t = "none" -> FALSE
      [] v.t = "num"  -> v.n # 0
      [] v.t = "str"  -> Len(v.s) > 0
      [] v.t = "dict" -> DOMAIN v.d # {}

\* `k in v`: "yes" / "no", or "TypeError" when v is not a container
PyIn(k, v) ==
    CASE v.t = "dict" -> (IF k \in DOMAIN v.d THEN "yes" ELSE "no")
      [] OTHER        -> "TypeError"

(***************************************************************************)
(* Floats: finite values (integers here), the infinities and NaN.          *)
(***************************************************************************)
Fin(n) == [k |-> "fin", v |-> n]
Inf == [k |-> "inf", v |-> 1]
NaN == [k |-> "nan", v |-> 0]
ValueError == [k |-> "ValueError", v |-> 0]
TypeError == [k |-> "TypeError", v |-> 0]

IsFloat(f) == f.k \in {"fin", "inf", "nan"}

\* a >= b on floats: every comparison with NaN is false
FloatGE(a, b) ==
    CASE a.k = "nan" \/ b.k = "nan" -> FALSE
      [] a.k = "inf" -> a.v = 1 \/ (b.k = "inf" /\ b.v = -1)
      [] b.k = "inf" -> b.v = -1
      [] OTHER       -> a.v >= b.v

Digits == <<"0", "1", "2", "3", "4", "5", "6", "7", "8", "9">>
IsDigit(c) == \E i \in 1..10 : Digits[i] = c
DigitVal(c) == (CHOOSE i \in 1..10 : Digits[i] = c) - 1

RECURSIVE ParseDigits(_, _)
\* the value of the digit string s appended to the value acc read so far
ParseDigits(s, acc) ==
    IF s = <<>> THEN acc
    ELSE ParseDigits(Tail(s), 10 * acc + DigitVal(Head(s)))

\* float() of an unsigned literal
ParseUnsigned(s) ==
    IF s = <<"i", "n", "f">> THEN Inf
    ELSE IF s = <<"n", "a", "n">> THEN NaN
    ELSE IF s # <<>> /\ \A i \in 1..Len(s) : IsDigit(s[i])
         THEN Fin(ParseDigits(s, 0))
    ELSE ValueError

FloatNeg(f) ==
    CASE f.k = "fin" -> Fin(0 - f.v)
      [] f.k = "inf" -> [k |-> "inf", v |-> 0 - f.v]
      [] OTHER       -> f

\* float(s) for a string s: an optional sign, then digits, inf or nan
ParseFloat(s) ==
    IF s # <<>> /\ Head(s) = "-" THEN FloatNeg(ParseUnsigned(Tail(s)))
    ELSE IF s # <<>> /\ Head(s) = "+" THEN ParseUnsigned(Tail(s))
    ELSE ParseUnsigned(s)

\* float(v) for a Python value v
PyFloat(v) ==
    CASE v.t = "num" -> Fin(v.n)
      [] v.t = "str" -> ParseFloat(v.s)
      [] OTHER       -> TypeError

(***************************************************************************)
(* Configuration                                                           *)
(***************************************************************************)
VALID_PAIRS ==
    {"btcidr", "ethidr", "ltcidr", "xrpidr",
     "adaidr", "dogidr", "shibidr", "maticidr"}

\* an endpoint template is a sequence of literal pieces and "{}" fields
INDODAX_ENDPOINTS ==
    << <<"https://indodax.com/api/ticker">>,
       <<"https://indodax.com/tapi/ticker">>,
       <<"https://api.indodax.com/ticker">> >>

RECURSIVE Format(_, _)
\* template.format(arg): every "{}" field is replaced by arg
Format(template, arg) ==
    IF template = <<>> THEN <<>>
    ELSE <<(IF Head(template) = "{}" THEN arg ELSE Head(template))>>
         \o Format(Tail(template), arg)

TTL == 60
MAXSIZE == 100
\* scheduler.add_job(check_alerts, "interval", minutes=2)
INTERVAL == 120

(***************************************************************************)
(* cache = TTLCache(maxsize=100, ttl=60): the entries in the order of      *)
(* their insertion (the order of the expiry links), each with the time it  *)
(* expires at.                                                             *)
(***************************************************************************)
CacheKeys(c) == {c[i].key : i \in 1..Len(c)}

\* TTLCache.expire(time): drops every entry with expires <= time
CacheExpire(c, t) == SelectSeq(c, LAMBDA e : t < e.expires)

\* (mutant) an entry still counts at the moment it expires
CacheContainsInclusive(c, key, t) ==
    \E i \in 1..Len(c) : c[i].key = key /\ t <= c[i].expires

\* `key in cache`: an expired entry counts as absent
CacheContains(c, key, t) ==
    \E i \in 1..Len(c) : c[i].key = key /\ t < c[i].expires

\* cache[key]; KeyError for a missing or expired key
CacheGetItem(c, key, t) ==
    IF CacheContains(c, key, t)
    THEN (CHOOSE e \in {c[i] : i \in 1..Len(c)} : e.key = key).value
    ELSE [t |-> "KeyError"]

\* (mutant) the entry expires one unit too early
CacheSetItemShort(c, key, value, t) ==
    LET live == SelectSeq(c, LAMBDA e : t < e.expires)
        room == IF key \notin {live[i].key : i \in 1..Len(live)}
                   /\ Len(live) + 1 > MAXSIZE
                THEN Tail(live) ELSE live
        rest == SelectSeq(room, LAMBDA e : e.key # key)
    IN  Append(rest, [key |-> key, value |-> value, expires |-> t + TTL - 1])

\* cache[key] = value at time t: expired entries are dropped, the oldest
\* entry is evicted while the cache is full, and the entry is linked last
CacheSetItem(c, key, value, t) ==
    LET live == CacheExpire(c, t)
        room == IF key \notin CacheKeys(live) /\ Len(live) + 1 > MAXSIZE
                THEN Tail(live) ELSE live
        rest == SelectSeq(room, LAMBDA e : e.key # key)
    IN  Append(rest, [key |-> key, value |-> value, expires |-> t + TTL])

(***************************************************************************)
(* What one endpoint answers to one request.                               *)
(***************************************************************************)
Failure(kind) == [kind |-> kind, body |-> None]
Body(data) == [kind |-> "ok", body |-> data]

Rejected == [ok |-> FALSE, snap |-> None]
Accepted(snap) == [ok |-> TRUE, snap |-> snap]

\* (mutant) a last that is present is accepted, whatever its truth value
ProcessResponseAnyLast(o) ==
    IF o.kind # "ok" THEN Rejected
    ELSE LET data == o.body IN
         IF PyIn("ticker", data) = "TypeError" THEN Rejected
         ELSE IF PyIn("ticker", data) = "yes" /\ Truthy(data.d.ticker)
         THEN LET ticker_data == data.d.ticker IN
              IF PyIn("last", ticker_data) = "TypeError" THEN Rejected
              ELSE IF PyIn("last", ticker_data) = "yes"
              THEN Accepted(ticker_data)
              ELSE Rejected
         ELSE IF PyIn("last", data) = "yes" /\ Truthy(data.d.last)
         THEN Accepted(data)
         ELSE Rejected

\* the body of the endpoint loop after requests.get: raise_for_status,
\* response.json and the validation of the payload.  Every exception is
\* caught inside the loop and moves on to the next endpoint.
ProcessResponse(o) ==
    IF o.kind # "ok" THEN Rejected
    ELSE LET data == o.body IN
         IF PyIn("ticker", data) = "TypeError" THEN Rejected
         ELSE IF PyIn("ticker", data) = "yes" /\ Truthy(data.d.ticker)
         THEN LET ticker_data == data.d.ticker IN
              IF PyIn("last", ticker_data) = "TypeError" THEN Rejected
              ELSE IF PyIn("last", ticker_data) = "yes"
                      /\ Truthy(ticker_data.d.last)
              THEN Accepted(ticker_data)
              ELSE Rejected
         ELSE IF PyIn("last", data) = "yes" /\ Truthy(data.d.last)
         THEN Accepted(data)
         ELSE Rejected

\* (mutant) the allow-list is not consulted
LookupNoAllowList(pair, c, t) ==
    IF CacheContains(c, pair, t)
    THEN [returned |-> TRUE, result |-> CacheGetItem(c, pair, t)]
    ELSE [returned |-> FALSE, result |-> None]

\* get_ticker_data(pair), up to the endpoint loop: the allow-list test and
\* the cache lookup at time t.  returned: the call is over, with result
Lookup(pair, c, t) ==
    IF pair \notin VALID_PAIRS
    THEN [returned |-> TRUE, result |-> None]
    ELSE IF CacheContains(c, pair, t)
    THEN [returned |-> TRUE, result |-> CacheGetItem(c, pair, t)]
    ELSE [returned |-> FALSE, result |-> None]

\* (mutant) the loop does not stop at the first accepted answer
EndpointStepNoStop(i, pair, o, c, t) ==
    LET url == Format(INDODAX_ENDPOINTS[i], pair)
        r == ProcessResponse(o)
    IN  [request |-> [endpoint |-> i, url |-> url],
         returned |-> i = Len(INDODAX_ENDPOINTS),
         result |-> r.snap,
         cache |-> IF r.ok THEN CacheSetItem(c, pair, r.snap, t) ELSE c]

\* (mutant) the body of a rejected answer is stored all the same
EndpointStepStoreAll(i, pair, o, c, t) ==
    LET url == Format(INDODAX_ENDPOINTS[i], pair)
        r == ProcessResponse(o)
    IN  [request |-> [endpoint |-> i, url |-> url],
         returned |-> r.ok \/ i = Len(INDODAX_ENDPOINTS),
         result |-> r.snap,
         cache |-> CacheSetItem(c, pair, IF r.ok THEN r.snap ELSE o.body, t)]

\* one pass of the loop over INDODAX_ENDPOINTS, for endpoint i answering o
\* at time t: the request issued, whether the call is over and with what
\* result, and the cache.  The loop ends with the first accepted answer
\* (stored, then returned) or after the last endpoint (None).
EndpointStep(i, pair, o, c, t) ==
    LET url == Format(INDODAX_ENDPOINTS[i], pair)
        r == ProcessResponse(o)
    IN  [request |-> [endpoint |-> i, url |-> url],
         returned |-> r.ok \/ i = Len(INDODAX_ENDPOINTS),
         result |-> r.snap,
         cache |-> IF r.ok THEN CacheSetItem(c, pair, r.snap, t) ELSE c]

(***************************************************************************)
(* alerts = {}: a dict from chat id to (pair, target_price), kept as its   *)
(* items in insertion order.                                               *)
(***************************************************************************)
DictKeys(d) == {d[i].user : i \in 1..Len(d)}

\* d[user] = (pair, target): an existing key keeps its place
DictSet(d, user, pair, target) ==
    LET item == [user |-> user, pair |-> pair, target |-> target] IN
    IF user \in DictKeys(d)
    THEN [i \in 1..Len(d) |-> IF d[i].user = user THEN item ELSE d[i]]
    ELSE Append(d, item)

\* del d[user], for a key that is there
DictDel(d, user) == SelectSeq(d, LAMBDA e : e.user # user)

\* str.lower() on the pair names that are typed in
Lower(s) ==
    CASE s = "BTCIDR" -> "btcidr"
      [] s = "ETHIDR" -> "ethidr"
      [] OTHER        -> s

\* alert(update, context) up to the write of the registry: the registry
\* after the command with arguments args from chat user
AlertCommand(d, user, args) ==
    IF Len(args) < 2 THEN d
    ELSE LET pair == Lower(args[1]) IN
         IF pair \notin VALID_PAIRS THEN d
         ELSE LET target_price == PyFloat(args[2]) IN
              IF ~IsFloat(target_price) THEN d
              ELSE DictSet(d, user, pair, target_price)

\* (mutant) the notification is sent when the price is at or below the target
EvaluateBelow(item, ticker) ==
    IF ~Truthy(ticker) THEN "next"
    ELSE IF PyIn("last", ticker) # "yes" THEN "next"
    ELSE LET current_price == PyFloat(ticker.d.last) IN
         IF ~IsFloat(current_price) THEN "next"
         ELSE IF FloatGE(item.target, current_price) THEN "send"
         ELSE "next"

\* check_alerts, one subscription, after get_ticker_data returned ticker:
\* "send" when the notification is to be sent, else "next" (no trigger, no
\* data, or an exception that the loop body catches)
Evaluate(item, ticker) ==
    IF ~Truthy(ticker) THEN "next"
    ELSE IF PyIn("last", ticker) # "yes" THEN "next"
    ELSE LET current_price == PyFloat(ticker.d.last) IN
         IF ~IsFloat(current_price) THEN "next"
         ELSE IF FloatGE(current_price, item.target) THEN "send"
         ELSE "next"

\* (mutant) the entry of the chat is kept after the send
AfterSendKeep(d, user, ok) == d

\* check_alerts after the await of send_message: the registry.  When the
\* send raised, or the key is gone, the exception is caught and logged.
AfterSend(d, user, ok) ==
    IF ok /\ user \in DictKeys(d) THEN DictDel(d, user) ELSE d

(***************************************************************************)
(* Bounds and inputs                                                       *)
(***************************************************************************)
\* how many times the clock is advanced
MaxTicks == 2
\* the clock advances by one unit or by one unit less than the TTL when
\* get_ticker_data is studied alone, by the scheduler's interval otherwise
Steps == {1, TTL - 1}
AlertSteps == {INTERVAL}

\* the pairs a caller asks for: two of the allow-list and one outside it
PairInputs == {"btcidr", "ethidr", "xyzidr"}

\* the chats that issue commands
Users == {1, 2}

\* the arguments of an /alert command: too few, or a pair and a price
PriceInputs ==
    { <<"5">>, <<"7">>, <<"0">>, <<"-", "5">>, <<"i", "n", "f">>,
      <<"n", "a", "n">>, <<"a", "b", "c">> }
AlertArgs ==
    { <<"btcidr">> } \cup
    { <<p, Str(x)>> : p \in {"BTCIDR", "ethidr", "xyzidr"}, x \in PriceInputs }
\* the /alert commands issued while check_alerts is studied
EvalArgs ==
    { <<"btcidr">> } \cup
    { <<p, Str(x)>> : p \in {"BTCIDR", "ethidr"}, x \in {<<"5">>, <<"7">>} }

\* the answers an endpoint can give to one request: the four failures of
\* the request, a body that is no object, objects without a usable last,
\* and objects whose last is "5", "7", "abc", -5 and "0"
Outcomes ==
    { Failure("timeout"), Failure("connection"), Failure("http"),
      Failure("json"),
      Body(Num(3)),
      Body(Dict([error |-> Str(<<"x">>)])),
      Body(Dict([ticker |-> Dict([high |-> Str(<<"9">>)])])),
      Body(Dict([ticker |-> Dict([last |-> Num(0)])])),
      Body(Dict([ticker |-> Dict([last |-> Str(<<"5">>)])])),
      Body(Dict([ticker |-> EmptyDict, last |-> Str(<<"7">>)])),
      Body(Dict([ticker |-> Dict([last |-> Str(<<"a", "b", "c">>)])])),
      Body(Dict([last |-> Num(-5)])),
      Body(Dict([ticker |-> Dict([last |-> Str(<<"0">>)])])) }

\* the /alert commands issued while the progress of check_alerts is studied
LiveArgs == { <<"BTCIDR", Str(x)>> : x \in {<<"5">>, <<"7">>} }

\* what is issued and answered while all the handlers run together: the
\* price button of one pair of the allow-list and of one outside it, the
\* /alert of one chat, and answers that fail, are accepted or are rejected
AllPairs == {"btcidr", "ethidr", "xyzidr"}
AllUsers == {1}
AllArgs == { <<"BTCIDR", Str(<<"5">>)>> }
AllOutcomes ==
    { Failure("timeout"),
      Body(Dict([ticker |-> Dict([last |-> Str(<<"5">>)])])),
      Body(Dict([ticker |-> Dict([last |-> Num(0)])])) }

\* the pairs of the summary, in the order of the loop of top
TopPairs == <<"btcidr", "ethidr", "dogidr", "xrpidr", "adaidr">>

\* the answers met by the calls that top makes
TopOutcomes ==
    { Failure("timeout"),
      Body(Dict([ticker |-> Dict([last |-> Str(<<"5">>)])])) }

\* the answers met by the calls that check_alerts makes
AlertOutcomes ==
    { Failure("timeout"),
      Body(Dict([ticker |-> Dict([last |-> Str(<<"5">>)])])),
      Body(Dict([ticker |-> Dict([last |-> Str(<<"a", "b", "c">>)])])) }

(***************************************************************************)
(* State                                                                   *)
(***************************************************************************)
VARIABLES
    now,        \* the monotonic clock
    ticks,      \* how many times the clock was advanced
    cache,      \* the TTLCache
    alerts,     \* the registry of price alerts
    fetch,      \* the call of get_ticker_data in progress, if any
    ev,         \* check_alerts: where it is, the items left, the item sent
    nextRun,    \* when the scheduler starts check_alerts next
    stored,     \* per pair, the last snapshot stored and when (history)
    lastCall,   \* the latest call of get_ticker_data by show_price (history)
    notified,   \* per chat, the calls of send_message since its last /alert,
                \* counted up to 2 (history)
    cycle,      \* the latest run of check_alerts: the calls that went to the
                \* endpoints, the items done, the sends that raised (history)
    top         \* top: where it is, the pairs left, its requests (history)

vars == <<now, ticks, cache, alerts, fetch, ev, nextRun,
          stored, lastCall, notified, cycle, top>>

NoFetch == [active |-> FALSE, caller |-> "", pair |-> "", i |-> 0]
NoStore == [value |-> None, at |-> -1]
NoAnswer == Failure("none")
NoItem == [user |-> 0, pair |-> "", target |-> NaN]

NoCall ==
    [called |-> FALSE, done |-> FALSE, pair |-> "", at |-> 0,
     before |-> <<>>, prior |-> NoStore, requests |-> <<>>,
     answer |-> NoAnswer, result |-> None]

Idle == [pc |-> "idle", items |-> <<>>, cur |-> NoItem]
NoCycle == [fetched |-> <<>>, done |-> <<>>, unsent |-> {}]
NoTop == [pc |-> "idle", left |-> <<>>, log |-> <<>>]

Init ==
    /\ now = 0
    /\ ticks = 0
    /\ cache = <<>>
    /\ alerts = <<>>
    /\ fetch = NoFetch
    /\ ev = Idle
    /\ nextRun = INTERVAL
    /\ stored = [p \in VALID_PAIRS |-> NoStore]
    /\ lastCall = NoCall
    /\ notified = [u \in Users |-> 0]
    /\ cycle = NoCycle
    /\ top = NoTop

\* the event loop is free: nothing runs between two awaits
LoopFree == ~fetch.active /\ ev.pc # "running" /\ top.pc # "running"

\* time passes (also while a request is blocking)
Advance(d) ==
    /\ ticks < MaxTicks
    /\ now' = now + d
    /\ ticks' = ticks + 1
    /\ UNCHANGED <<cache, alerts, fetch, ev, nextRun, stored, lastCall,
                   notified, cycle, top>>

\* caller calls get_ticker_data(pair): the call returns at once (unknown
\* pair, cache hit) or enters the endpoint loop
CallStart(caller, pair) ==
    /\ fetch' = IF Lookup(pair, cache, now).returned THEN NoFetch
                ELSE [active |-> TRUE, caller |-> caller, pair |-> pair,
                      i |-> 1]
    /\ UNCHANGED <<cache, stored>>

\* the call in progress requests its next endpoint, which answers o
CallPass(o) ==
    LET e == EndpointStep(fetch.i, fetch.pair, o, cache, now) IN
    /\ cache' = e.cache
    /\ stored' = IF e.cache # cache
                 THEN [stored EXCEPT ![fetch.pair] =
                          [value |-> e.result, at |-> now]]
                 ELSE stored
    /\ fetch' = IF e.returned THEN NoFetch
                ELSE [fetch EXCEPT !.i = @ + 1]

\* show_price(query, pair): the handler of a "price_<pair>" button calls
\* get_ticker_data(pair) with the pair of the callback data
ShowPrice(pair) ==
    /\ LoopFree
    /\ CallStart("show_price", pair)
    /\ LET l == Lookup(pair, cache, now) IN
       lastCall' =
          [called |-> TRUE, done |-> l.returned, pair |-> pair, at |-> now,
           before |-> cache,
           prior |-> IF pair \in VALID_PAIRS THEN stored[pair] ELSE NoStore,
           requests |-> <<>>, answer |-> NoAnswer, result |-> l.result]
    /\ UNCHANGED <<now, ticks, alerts, ev, nextRun, notified, cycle, top>>

\* the endpoint loop of a call made by show_price
ShowPriceFetch(o) ==
    /\ fetch.active
    /\ fetch.caller = "show_price"
    /\ CallPass(o)
    /\ LET e == EndpointStep(fetch.i, fetch.pair, o, cache, now) IN
       lastCall' = [lastCall EXCEPT
                       !.requests = Append(@, e.request),
                       !.answer = o,
                       !.done = e.returned,
                       !.result = e.result]
    /\ UNCHANGED <<now, ticks, alerts, ev, nextRun, notified, cycle, top>>

\* alert(update, context): /alert with arguments args from chat user
Alert(user, args) ==
    /\ LoopFree
    /\ alerts' = AlertCommand(alerts, user, args)
    /\ notified' = [notified EXCEPT ![user] = 0]
    /\ UNCHANGED <<now, ticks, cache, fetch, ev, nextRun, stored, lastCall,
                   cycle, top>>

\* the scheduler starts check_alerts at the interval: the job returns at
\* once when the registry is empty, else it copies the items of the registry
CheckAlertsStart ==
    /\ LoopFree
    /\ ev.pc = "idle"
    /\ now >= nextRun
    /\ nextRun' = ((now \div INTERVAL) + 1) * INTERVAL
    /\ ev' = IF alerts = <<>> THEN Idle
             ELSE [pc |-> "running", items |-> alerts, cur |-> NoItem]
    /\ cycle' = NoCycle
    /\ UNCHANGED <<now, ticks, cache, alerts, fetch, stored, lastCall,
                   notified, top>>

\* the scheduler skips a run while the job is still running (the default
\* max_instances = 1)
CheckAlertsSkip ==
    /\ ev.pc # "idle"
    /\ now >= nextRun
    /\ nextRun' = ((now \div INTERVAL) + 1) * INTERVAL
    /\ UNCHANGED <<now, ticks, cache, alerts, fetch, ev, stored, lastCall,
                   notified, cycle, top>>

\* (mutant) the run ends at the first item for which there is no data
ContinueAbort(ticker) ==
    LET item == Head(ev.items)
        rest == Tail(ev.items)
    IN  /\ cycle' = [cycle EXCEPT
                        !.done = Append(@, [item |-> item, ticker |-> ticker])]
        /\ IF Evaluate(item, ticker) = "send"
           THEN /\ ev' = [pc |-> "sending", items |-> rest, cur |-> item]
                /\ notified' = [notified EXCEPT
                                   ![item.user] = IF @ < 2 THEN @ + 1 ELSE @]
           ELSE /\ ev' = IF rest = <<>> \/ ~Truthy(ticker) THEN Idle
                         ELSE [ev EXCEPT !.items = rest]
                /\ notified' = notified

\* check_alerts goes on after get_ticker_data returned ticker for the first
\* item left: it awaits send_message, or moves to the next item, or ends
Continue(ticker) ==
    LET item == Head(ev.items)
        rest == Tail(ev.items)
    IN  /\ cycle' = [cycle EXCEPT
                        !.done = Append(@, [item |-> item, ticker |-> ticker])]
        /\ IF Evaluate(item, ticker) = "send"
           THEN /\ ev' = [pc |-> "sending", items |-> rest, cur |-> item]
                /\ notified' = [notified EXCEPT
                                   ![item.user] = IF @ < 2 THEN @ + 1 ELSE @]
           ELSE /\ ev' = IF rest = <<>> THEN Idle
                         ELSE [ev EXCEPT !.items = rest]
                /\ notified' = notified

\* check_alerts takes the next item and calls get_ticker_data(pair)
CheckAlertsItem ==
    /\ ev.pc = "running"
    /\ ~fetch.active
    /\ CallStart("check_alerts", Head(ev.items).pair)
    /\ LET l == Lookup(Head(ev.items).pair, cache, now) IN
       IF l.returned THEN Continue(l.result)
       ELSE /\ cycle' = [cycle EXCEPT
                           !.fetched = Append(@, Head(ev.items).pair)]
            /\ UNCHANGED <<ev, notified>>
    /\ UNCHANGED <<now, ticks, alerts, nextRun, lastCall, top>>

\* the endpoint loop of a call made by check_alerts
CheckAlertsFetch(o) ==
    /\ fetch.active
    /\ fetch.caller = "check_alerts"
    /\ CallPass(o)
    /\ LET e == EndpointStep(fetch.i, fetch.pair, o, cache, now) IN
       IF e.returned THEN Continue(e.result)
       ELSE UNCHANGED <<ev, notified, cycle>>
    /\ UNCHANGED <<now, ticks, alerts, nextRun, lastCall, top>>

\* send_message returns (ok) or raises: check_alerts deletes the entry of
\* the chat after a send that returned, and goes on with the items left
SendDone(ok) ==
    /\ ev.pc = "sending"
    /\ ~fetch.active
    /\ alerts' = AfterSend(alerts, ev.cur.user, ok)
    /\ ev' = IF ev.items = <<>> THEN Idle
             ELSE [ev EXCEPT !.pc = "running", !.cur = NoItem]
    /\ cycle' = IF ok THEN cycle
                ELSE [cycle EXCEPT !.unsent = @ \cup {ev.cur.user}]
    /\ UNCHANGED <<now, ticks, cache, fetch, nextRun, stored, lastCall,
                   notified, top>>

\* top(update, context) and show_top_coins(query), after the await of the
\* "loading" message: the loop over the five pairs starts
Top ==
    /\ LoopFree
    /\ top' = [pc |-> "running", left |-> TopPairs, log |-> <<>>]
    /\ UNCHANGED <<now, ticks, cache, alerts, fetch, ev, nextRun, stored,
                   lastCall, notified, cycle>>

\* the loop of top after get_ticker_data returned for the first pair left:
\* the line of the pair is added to the message, and the loop goes on or ends
TopContinue(log) ==
    top' = [pc |-> IF Tail(top.left) = <<>> THEN "idle" ELSE "running",
            left |-> Tail(top.left),
            log |-> log]

\* top takes the next pair and calls get_ticker_data(pair)
TopItem ==
    /\ top.pc = "running"
    /\ ~fetch.active
    /\ CallStart("top", Head(top.left))
    /\ LET l == Lookup(Head(top.left), cache, now) IN
       IF l.returned
       THEN TopContinue(Append(top.log, [what |-> "hit",
                                         pair |-> Head(top.left)]))
       ELSE UNCHANGED top
    /\ UNCHANGED <<now, ticks, alerts, ev, nextRun, lastCall, notified,
                   cycle>>

\* the endpoint loop of a call made by top: requests.get sends the request
\* and blocks until the answer is there
TopFetch(o) ==
    /\ fetch.active
    /\ fetch.caller = "top"
    /\ CallPass(o)
    /\ LET e == EndpointStep(fetch.i, fetch.pair, o, cache, now)
           log == top.log \o << [what |-> "request", pair |-> fetch.pair],
                                [what |-> "response", pair |-> fetch.pair] >>
       IN  IF e.returned THEN TopContinue(log)
           ELSE top' = [top EXCEPT !.log = log]
    /\ UNCHANGED <<now, ticks, alerts, ev, nextRun, lastCall, notified,
                   cycle>>

NextFetch ==
    \/ \E d \in Steps : Advance(d)
    \/ \E pair \in PairInputs : ShowPrice(pair)
    \/ \E o \in Outcomes : ShowPriceFetch(o)

NextAlertCmd ==
    \E user \in Users, args \in AlertArgs : Alert(user, args)

NextAlerts ==
    \/ \E d \in AlertSteps : Advance(d)
    \/ \E user \in Users, args \in EvalArgs : Alert(user, args)
    \/ CheckAlertsStart
    \/ CheckAlertsSkip
    \/ CheckAlertsItem
    \/ \E o \in AlertOutcomes : CheckAlertsFetch(o)
    \/ \E ok \in BOOLEAN : SendDone(ok)

NextTop ==
    \/ Top
    \/ TopItem
    \/ \E o \in TopOutcomes : TopFetch(o)

NextLive ==
    \/ \E d \in AlertSteps : Advance(d)
    \/ \E user \in Users, args \in LiveArgs : Alert(user, args)
    \/ CheckAlertsStart
    \/ CheckAlertsSkip
    \/ CheckAlertsItem
    \/ \E o \in AlertOutcomes : CheckAlertsFetch(o)
    \/ \E ok \in BOOLEAN : SendDone(ok)

NextAll ==
    \/ \E d \in AlertSteps : Advance(d)
    \/ \E pair \in AllPairs : ShowPrice(pair)
    \/ \E o \in AllOutcomes : ShowPriceFetch(o)
    \/ \E user \in AllUsers, args \in AllArgs : Alert(user, args)
    \/ CheckAlertsStart
    \/ CheckAlertsSkip
    \/ CheckAlertsItem
    \/ \E o \in AllOutcomes : CheckAlertsFetch(o)
    \/ \E ok \in BOOLEAN : SendDone(ok)

\* get_ticker_data, called by the handler of the price button
SpecFetch == Init /\ [][NextFetch]_vars

\* the /alert command, with every kind of argument
SpecAlertCmd == Init /\ [][NextAlertCmd]_vars

\* the /alert command and the check_alerts job
SpecAlerts == Init /\ [][NextAlerts]_vars

\* the summary of the five pairs
SpecTop == Init /\ [][NextTop]_vars

\* the /alert command and the check_alerts job as they are scheduled: the
\* interval job is started when it is due and the loop is free; the loop
\* body runs on; requests.get returns or raises within its timeout; the
\* await of send_message returns or raises
SpecLive ==
    /\ Init
    /\ [][NextLive]_vars
    /\ WF_vars(CheckAlertsStart)
    /\ WF_vars(CheckAlertsItem)
    /\ WF_vars(\E o \in AlertOutcomes : CheckAlertsFetch(o))
    /\ WF_vars(\E ok \in BOOLEAN : SendDone(ok))

\* the price button, the /alert command and the check_alerts job, on one
\* event loop
SpecAll == Init /\ [][NextAll]_vars

(***************************************************************************)
(* What the claims speak of                                                *)
(***************************************************************************)
\* v is an object whose field key is present and truthy
HasTruthy(v, key) == v.t = "dict" /\ key \in DOMAIN v.d /\ Truthy(v.d[key])

\* the answer o is a valid payload: a 2xx answer whose body is an object
\* with a truthy last, in its ticker object when it has one, else flat
ValidPayload(o) ==
    /\ o.kind = "ok"
    /\ IF HasTruthy(o.body, "ticker")
       THEN HasTruthy(o.body.d.ticker, "last")
       ELSE HasTruthy(o.body, "last")

\* the snapshot that a valid payload carries
PayloadSnapshot(o) ==
    IF HasTruthy(o.body, "ticker") THEN o.body.d.ticker ELSE o.body

\* the requests of the first n endpoints for pair, in list order
InOrder(n, pair) ==
    [k \in 1..n |->
        [endpoint |-> k, url |-> Format(INDODAX_ENDPOINTS[k], pair)]]

CacheEntries(c) == {c[i] : i \in 1..Len(c)}
Items(d) == {d[i] : i \in 1..Len(d)}

\* the latest call of show_price had a snapshot of its pair stored before it
HadStore == lastCall.called /\ lastCall.prior # NoStore
\* the time from that store to the call
Age == lastCall.at - lastCall.prior.at

\* C1: get_ticker_data(pair) for a pair outside VALID_PAIRS returns None at
\* once, issues no request and leaves the cache as it was, whatever the
\* cache holds.
C1_InvalidPairNoNetwork ==
    (lastCall.called /\ lastCall.pair \notin VALID_PAIRS) =>
        /\ lastCall.done
        /\ ~fetch.active
        /\ lastCall.result = None
        /\ lastCall.requests = <<>>
        /\ cache = lastCall.before

\* C1 happens: an unknown pair is asked for while the cache holds an entry
C1_Witness ==
    /\ lastCall.called
    /\ lastCall.pair \notin VALID_PAIRS
    /\ lastCall.before # <<>>

C3_StaleRefetched ==
    (HadStore /\ lastCall.pair \in VALID_PAIRS /\ Age >= TTL) =>
        /\ ~lastCall.done => fetch.active /\ fetch.pair = lastCall.pair
        /\ lastCall.done =>
              /\ Len(lastCall.requests) >= 1
              /\ \/ lastCall.result = None
                 \/ /\ ValidPayload(lastCall.answer)
                    /\ lastCall.result = PayloadSnapshot(lastCall.answer)

\* C3 happens: the expired entry is still held when the call is made, at
\* the very moment it expires, and the call returns another snapshot
C3_Witness ==
    /\ HadStore
    /\ Age = TTL
    /\ lastCall.done
    /\ lastCall.pair \in CacheKeys(lastCall.before)
    /\ lastCall.result # None
    /\ lastCall.result # lastCall.prior.value

\* C4: on a cache miss the endpoints are requested in list order, each at
\* most once; at every pass of the loop, a valid payload ends the call with
\* its snapshot (no later endpoint is requested), any other answer moves on
\* to the next endpoint, or ends the call with None after the last one; the
\* call returns a snapshot or None, never an exception.
C4_FallbackOrder ==
    (lastCall.called /\ lastCall.pair \in VALID_PAIRS) =>
        /\ lastCall.requests = InOrder(Len(lastCall.requests), lastCall.pair)
        /\ Len(lastCall.requests) <= Len(INDODAX_ENDPOINTS)
        /\ lastCall.result.t \in {"none", "dict"}
        /\ lastCall.done <=> ~fetch.active
        /\ Len(lastCall.requests) >= 1 =>
              IF ValidPayload(lastCall.answer)
              THEN /\ lastCall.done
                   /\ lastCall.result = PayloadSnapshot(lastCall.answer)
              ELSE IF Len(lastCall.requests) < Len(INDODAX_ENDPOINTS)
              THEN /\ ~lastCall.done
                   /\ fetch.i = Len(lastCall.requests) + 1
              ELSE /\ lastCall.done
                   /\ lastCall.result = None

\* C4 happens: the first endpoint fails, the second answers a valid payload
\* and the third is not requested
C4_Witness ==
    /\ lastCall.done
    /\ Len(lastCall.requests) = 2
    /\ lastCall.requests[2].endpoint = 2
    /\ ValidPayload(lastCall.answer)
    /\ lastCall.result = PayloadSnapshot(lastCall.answer)

\* C5: a call in which every endpoint fails returns None and leaves the
\* cache as it was; a call changes the cache only as it returns a snapshot,
\* and then the pair's entry holds that snapshot and every other entry is
\* one that was there before.
C5_CacheOnSuccessOnly ==
    lastCall.called =>
        /\ (~lastCall.done \/ lastCall.result = None) =>
              cache = lastCall.before
        /\ cache # lastCall.before =>
              /\ lastCall.done
              /\ \E e \in CacheEntries(cache) :
                    /\ e.key = lastCall.pair
                    /\ e.value = lastCall.result
              /\ \A e \in CacheEntries(cache) :
                    e.key # lastCall.pair => e \in CacheEntries(lastCall.before)

\* C5 happens: all three endpoints fail while the cache holds an entry
C5_Witness ==
    /\ lastCall.done
    /\ Len(lastCall.requests) = Len(INDODAX_ENDPOINTS)
    /\ lastCall.result = None
    /\ lastCall.before # <<>>
    /\ cache = lastCall.before

\* the snapshot v has a last that parses as a positive number
PositiveLast(v) ==
    /\ v.t = "dict"
    /\ "last" \in DOMAIN v.d
    /\ PyFloat(v.d.last).k = "fin"
    /\ PyFloat(v.d.last).v > 0

\* C6: once a run of check_alerts in which a subscription triggered is over,
\* and its chat issued no /alert since, the chat was notified exactly once
\* and has no subscription; a further run does not notify it again.
C6_OneShot ==
    \A u \in Users :
        (ev.pc = "idle" /\ notified[u] >= 1) =>
            /\ notified[u] = 1
            /\ u \notin DictKeys(alerts)

\* C7: the send of a notification is never under way while the
\* subscription it is for is still in the registry.
C7_RemovedBeforeSend ==
    ~(ev.pc = "sending" /\ ev.cur \in Items(alerts))

\* C8: the registry holds at most one subscription per chat, and a
\* notification is only ever sent for the subscription that the registry
\* holds for the chat at that moment, never for one that was replaced.
C8_OnlyLatestEvaluated ==
    [][/\ \A i, j \in 1..Len(alerts') :
             alerts'[i].user = alerts'[j].user => i = j
       /\ (ev.pc # "sending" /\ ev'.pc = "sending") =>
             ev'.cur \in Items(alerts)]_vars

\* C9: every subscription in the registry has a finite positive target: an
\* /alert whose target is not one is rejected.
C9_FinitePositiveTargets ==
    \A e \in Items(alerts) : e.target.k = "fin" /\ e.target.v > 0

\* C10: every snapshot that is cached, and every snapshot that
\* get_ticker_data returns, has a last that parses as a positive number.
C10_PositiveLastOnly ==
    /\ \A e \in CacheEntries(cache) : PositiveLast(e.value)
    /\ (lastCall.done /\ lastCall.result # None) =>
          PositiveLast(lastCall.result)

\* C11: within one run of check_alerts a pair goes to the endpoints once,
\* however many subscriptions name it; checked for the case the claim
\* singles out: a pair whose endpoints all failed for one subscription of
\* the run is not requested again in the same run.
C11_NoRefetchAfterFailure ==
    \A k \in 1..Len(cycle.done) :
        cycle.done[k].ticker = None =>
            Cardinality({n \in 1..Len(cycle.fetched) :
                            cycle.fetched[n] = cycle.done[k].item.pair}) <= 1

\* the step finishes the evaluation of one item of the run
ItemDone == Len(cycle'.done) = Len(cycle.done) + 1
\* the item that the step finishes, with the ticker obtained for it
Done == cycle'.done[Len(cycle'.done)]

\* the snapshot v has a last that is a number at or above target
AtOrAbove(v, target) ==
    /\ v.t = "dict"
    /\ "last" \in DOMAIN v.d
    /\ IsFloat(PyFloat(v.d.last))
    /\ FloatGE(PyFloat(v.d.last), target)

\* the snapshot v has a last that is a number below target
Below(v, target) ==
    /\ v.t = "dict"
    /\ "last" \in DOMAIN v.d
    /\ PyFloat(v.d.last).k = "fin"
    /\ target.k = "fin"
    /\ PyFloat(v.d.last).v < target.v

First(what, pair) ==
    CHOOSE n \in 1..Len(top.log) :
        /\ top.log[n] = [what |-> what, pair |-> pair]
        /\ \A m \in 1..(n - 1) : top.log[m] # top.log[n]

\* C13: in a summary whose five pairs all miss the cache, the request for a
\* later pair is started before the answer for an earlier pair is received.
C13_FanOut ==
    (\A n \in 1..Len(top.log) : top.log[n].what # "hit") =>
        \A i, j \in 1..Len(TopPairs) :
            ( /\ i < j
              /\ [what |-> "request", pair |-> TopPairs[j]]
                    \in {top.log[n] : n \in 1..Len(top.log)} ) =>
                First("request", TopPairs[j]) < First("response", TopPairs[i])

\* C14: every URL requested for a pair contains the pair, and differs from
\* the URL that the same endpoint is requested with for any other pair of
\* the allow-list.
C14_UrlNamesPair ==
    \A k \in 1..Len(lastCall.requests) :
        LET r == lastCall.requests[k] IN
        /\ \E n \in 1..Len(r.url) : r.url[n] = lastCall.pair
        /\ \A q \in VALID_PAIRS \ {lastCall.pair} :
              r.url # Format(INDODAX_ENDPOINTS[r.endpoint], q)

\* C15: a chat's subscription leaves the registry without a replacement
\* only as check_alerts ends the send of the notification for that very
\* subscription (same chat, pair and target): a subscription registered
\* while the send was under way is still there after the removal step.
C15_RemovesOnlyTheDispatched ==
    [][\A s \in Items(alerts) :
          s.user \notin DictKeys(alerts') =>
              (ev.pc = "sending" /\ s = ev.cur)]_vars

LiveItems ==
    {[user |-> 1, pair |-> "btcidr", target |-> PyFloat(Str(x))] :
        x \in {<<"5">>, <<"7">>}}

\* the interval job is due, the loop is free, and there are subscriptions
Due == ev.pc = "idle" /\ now >= nextRun /\ alerts # <<>>
\* a run of check_alerts has just started, with the items of the registry
JustStarted == ev.pc = "running" /\ cycle = NoCycle /\ ev.items = alerts
\* a run of check_alerts has just started with s among its items
Started(s) == JustStarted /\ s \in Items(ev.items)
\* the notification for s is being sent
Sending(s) == ev.pc = "sending" /\ ev.cur = s
\* the run obtained no ticker for s with a last at or above its target
NotReached(s) ==
    \E k \in 1..Len(cycle.done) :
        /\ cycle.done[k].item = s
        /\ ~AtOrAbove(cycle.done[k].ticker, s.target)
\* the send for the chat of s raised in the run
SendRaised(s) == s.user \in cycle.unsent
\* s is no longer in the registry: removed, or replaced by its chat
Gone(s) == s \notin Items(alerts)

\* C17: when the job is due and there are subscriptions, a run starts with
\* all of them as its items; for a subscription s that stays registered and
\* is not replaced, the run comes to send the notification for s, unless
\* the ticker it obtained for s was missing or had a last below the target;
\* and once the notification is being sent, s leaves the registry, unless
\* the send raised.
C17_EventuallyNotifiedAndRemoved ==
    /\ Due ~> JustStarted
    /\ \A s \in LiveItems :
          /\ Started(s) ~> (Sending(s) \/ NotReached(s) \/ Gone(s))
          /\ Sending(s) ~> (Gone(s) \/ SendRaised(s))

\* C17 happens: a run is over in which the second of two items was found at
\* or above its target, its send returned, and its chat has no subscription
\* any more
C17_Witness ==
    /\ ev.pc = "idle"
    /\ Len(cycle.done) = 2
    /\ cycle.done[2].item \in LiveItems
    /\ AtOrAbove(cycle.done[2].ticker, cycle.done[2].item.target)
    /\ cycle.unsent = {}
    /\ notified[cycle.done[2].item.user] = 1
    /\ cycle.done[2].item.user \notin DictKeys(alerts)

\* the cache c holds allow-listed pairs only, each once, each with a
\* payload that has a truthy last, and is not full
WellFormed(c) ==
    /\ \A e \in CacheEntries(c) :
          /\ e.key \in VALID_PAIRS
          /\ HasTruthy(e.value, "last")
    /\ \A i, j \in 1..Len(c) : c[i].key = c[j].key => i = j
    /\ Len(c) <= Cardinality(VALID_PAIRS)
    /\ Len(c) < MAXSIZE

\* C18: after every step the cache holds allow-listed pairs only, each with
\* an accepted payload (the one last stored for the pair) whose last is
\* truthy, so at most as many entries as there are allow-listed pairs, fewer
\* than the capacity; and an entry leaves the cache only once it expired:
\* none is evicted for lack of room.
C18_CacheWellFormed ==
    [][/\ WellFormed(cache')
       /\ \A e \in CacheEntries(cache') : e.value = stored'[e.key].value
       /\ \A e \in CacheEntries(cache) :
             e \notin CacheEntries(cache') => e.expires <= now]_vars

\* C18 happens: after a run of check_alerts that went to the endpoints and a
\* price button for a pair outside the allow-list, the cache holds two
\* pairs, one of them expired
C18_Witness ==
    /\ Len(cache) = 2
    /\ lastCall.called
    /\ lastCall.pair \notin VALID_PAIRS
    /\ cycle.fetched # <<>>
    /\ \E e \in CacheEntries(cache) : e.expires <= now

====
